---------------------------- MODULE Spec2Model ----------------------------
(***************************************************************************)
(* State-machine model of the FacialAuthApp React component                *)
(* (src/unnamed/part_000): the enroll form, the verify form, the user      *)
(* list, the notification channel, and every asynchronous continuation     *)
(* (FileReader loads, camera captures, fetch calls, expiry timers) that    *)
(* the component leaves pending between two events of the browser's        *)
(* single-threaded event loop.  One action is one event-loop task: a DOM   *)
(* event handler run up to its first await, or the continuation of an      *)
(* await up to the next one.  An `await response.json()` that directly     *)
(* follows an `await fetch(...)` is folded into the same step: the handler *)
(* touches no state between the two.                                       *)
(*                                                                         *)
(* React commits the render of a handler's state updates before the next  *)
(* event is dispatched, so each action reads the state left by the one     *)
(* before it, and a control that the last render disabled delivers no      *)
(* click.  A closure of an async handler keeps the values of the render in *)
(* which it was started; they are stored in the pending call.              *)
(*                                                                         *)
(* The remote service is the environment: the outcome of every request     *)
(* (2xx, non-2xx, body, transport failure) is chosen nondeterministically  *)
(* from small pools, as when other clients change the service at any time. *)
(* SpecServer alone answers from the service's own state (server), with    *)
(* this client as its only writer.                                         *)
(*                                                                         *)
(* Text whose characters the code inspects (user ids, tokens, MIME types,  *)
(* data URLs) is a sequence of one-character strings, so that trim(),      *)
(* startsWith(), encodeURIComponent() and split() are computed; messages   *)
(* are atomic strings.                                                     *)
(***************************************************************************)
EXTENDS Integers, Sequences, FiniteSets, TLC

(***************************************************************************)
(* Bounds of the model (not program constants).                            *)
(***************************************************************************)
MaxTimers == 2      \* pending setTimeout callbacks of showNotification
MaxReaders == 2     \* pending FileReader loads of handleFileSelect
MaxCaptures == 1    \* pending camera-frame materialisations
MaxCalls == 2       \* pending handleEnroll / handleVerify invocations, each
MaxDeletes == 2     \* pending deleteUser invocations
MaxFetch == 2       \* pending fetchUsers / fetchHealth invocations, each

(***************************************************************************)
(* JavaScript null: Null for a File reference (files are named by strings),*)
(* None for a structured value (object, data URL).                         *)
(***************************************************************************)
Null == "null"
None == << >>

(***************************************************************************)
(* Text helpers.                                                           *)
(***************************************************************************)
Whitespace == {" "}

RECURSIVE TrimStart(_)
TrimStart(s) ==
    IF s # << >> /\ Head(s) \in Whitespace THEN TrimStart(Tail(s)) ELSE s

RECURSIVE TrimEnd(_)
TrimEnd(s) ==
    IF s # << >> /\ s[Len(s)] \in Whitespace
    THEN TrimEnd(SubSeq(s, 1, Len(s) - 1))
    ELSE s

\* String.prototype.trim
Trim(s) == TrimEnd(TrimStart(s))

\* String.prototype.startsWith
StartsWith(s, prefix) ==
    /\ Len(s) >= Len(prefix)
    /\ SubSeq(s, 1, Len(prefix)) = prefix

\* JavaScript truthiness of a string: the empty string is falsy.
Truthy(s) == s # << >>

\* The characters encodeURIComponent leaves alone (those the model uses).
Unreserved == {"a", "b", "c", "e", "i", "l", "o", "t", "-", "_", "."}

\* The UTF-8 percent-encoding of the reserved characters the model uses.
PercentCode(c) ==
    CASE c = " " -> <<"%", "2", "0">>
      [] c = "/" -> <<"%", "2", "F">>
      [] c = "%" -> <<"%", "2", "5">>
      [] OTHER   -> <<c>>

RECURSIVE encodeURIComponent(_)
encodeURIComponent(s) ==
    IF s = << >> THEN << >>
    ELSE (IF Head(s) \in Unreserved THEN <<Head(s)>> ELSE PercentCode(Head(s)))
         \o encodeURIComponent(Tail(s))

\* What a server reads back from a percent-encoded path segment.
RECURSIVE PercentDecode(_)
PercentDecode(s) ==
    IF s = << >> THEN << >>
    ELSE IF Head(s) = "%" /\ Len(s) >= 3
    THEN <<CASE SubSeq(s, 2, 3) = <<"2", "0">> -> " "
             [] SubSeq(s, 2, 3) = <<"2", "F">> -> "/"
             [] SubSeq(s, 2, 3) = <<"2", "5">> -> "%"
             [] OTHER -> "?">> \o PercentDecode(SubSeq(s, 4, Len(s)))
    ELSE <<Head(s)>> \o PercentDecode(Tail(s))

(***************************************************************************)
(* Files.  A File is named by a string; FileInfo gives its MIME type and   *)
(* its size in bytes.  "frame1" and "frame2" are two camera snapshots,     *)
(* each wrapped as new File([blob], "webcam.jpg", {type: "image/jpeg"}).   *)
(***************************************************************************)
MaxImageBytes == 5 * 1024 * 1024

ImagePrefix == <<"i", "m", "a", "g", "e", "/">>
ImagePng == ImagePrefix \o <<"p", "n", "g">>
ImageJpeg == ImagePrefix \o <<"j", "p", "e", "g">>
TextPlain == <<"t", "e", "x", "t", "/", "p", "l", "a", "i", "n">>

FileInfo ==
    [ face1  |-> [type |-> ImagePng,  size |-> 1024],
      face2  |-> [type |-> ImageJpeg, size |-> MaxImageBytes],
      huge   |-> [type |-> ImagePng,  size |-> MaxImageBytes + 1],
      notes  |-> [type |-> TextPlain, size |-> 10],
      blank  |-> [type |-> << >>,     size |-> 10],
      frame1 |-> [type |-> ImageJpeg, size |-> 2048],
      frame2 |-> [type |-> ImageJpeg, size |-> 4096] ]

PickedFiles == {"face1", "face2", "huge", "notes", "blank"}
CameraFrames == {"frame1", "frame2"}

\* FileReader.readAsDataURL: "data:<mime>;base64,<payload>".  The base64
\* payload is one token, named after the file whose bytes it encodes.
DataUrl(f) == <<"data:">> \o FileInfo[f].type \o <<";base64", ",", f>>

\* String.prototype.split(","): the pieces between the commas.
RECURSIVE SplitComma(_)
SplitComma(s) ==
    IF \A i \in 1..Len(s) : s[i] # ","
    THEN <<s>>
    ELSE LET k == CHOOSE i \in 1..Len(s) :
                      s[i] = "," /\ \A j \in 1..(i - 1) : s[j] # ","
         IN  <<SubSeq(s, 1, k - 1)>> \o SplitComma(SubSeq(s, k + 1, Len(s)))

\* The fixed event names offered by the verify form.
events ==
    <<"login-event", "transaction-event", "payment-event", "admin-event",
      "sensitive-operation">>

\* User ids.
Alice == <<"a", "l", "i", "c", "e">>
Bob == <<"b", "o", "b">>
AB == <<"a", " ", "b">>

VARIABLES
    \* component state (useState)
    activeTab, isLoading, notification, enrolledUsers, systemHealth,
    userId, selectedFile, previewUrl,
    event, token, verifyImage, verifyPreview, verificationResult,
    useCamera,
    \* pending continuations
    timers,        \* setTimeout callbacks of showNotification, oldest first;
                   \* TRUE marks the one started by the latest call
    readers,       \* FileReader loads of handleFileSelect, oldest first
    captures,      \* camera snapshots being turned into blobs
    enrollCalls,   \* handleEnroll invocations suspended at an await
    verifyCalls,   \* handleVerify invocations suspended at an await
    deleteCalls,   \* deleteUser invocations suspended at an await
    usersCalls,    \* fetchUsers invocations suspended at an await
    healthCalls,   \* fetchHealth invocations suspended at an await
    \* the remote service
    server,        \* the user ids enrolled at the service, in its order
    \* history
    latest         \* per form, the file of the acquisition started last
                   \* since the form's image was last cleared by the
                   \* code; recorded in the behaviours that start with
                   \* latest.on only

enrollForm == <<userId, selectedFile, previewUrl>>
verifyForm ==
    <<event, token, verifyImage, verifyPreview, verificationResult, useCamera>>
notif == <<notification, timers>>
lists == <<enrolledUsers, systemHealth>>
fetches == <<usersCalls, healthCalls>>
submits == <<enrollCalls, verifyCalls, deleteCalls>>
acquiring == <<readers, captures>>

vars ==
    <<activeTab, isLoading, notification, enrolledUsers, systemHealth,
      userId, selectedFile, previewUrl,
      event, token, verifyImage, verifyPreview, verificationResult,
      useCamera,
      timers, readers, captures, enrollCalls, verifyCalls, deleteCalls,
      usersCalls, healthCalls, server, latest>>

\* s without its i-th element
RemoveAt(s, i) == SubSeq(s, 1, i - 1) \o SubSeq(s, i + 1, Len(s))

(***************************************************************************)
(* The state after the first render and its mount effect, which calls      *)
(* fetchHealth() and fetchUsers().                                         *)
(***************************************************************************)
InitComponent ==
    /\ activeTab = "enroll"
    /\ isLoading = FALSE
    /\ notification = None
    /\ enrolledUsers = << >>
    /\ systemHealth = None
    /\ userId = << >>
    /\ selectedFile = Null
    /\ previewUrl = None
    /\ event = "login-event"
    /\ token = << >>
    /\ verifyImage = Null
    /\ verifyPreview = None
    /\ verificationResult = None
    /\ useCamera = FALSE
    /\ timers = << >>
    /\ readers = << >>
    /\ captures = << >>
    /\ enrollCalls = << >>
    /\ verifyCalls = << >>
    /\ deleteCalls = << >>
    /\ usersCalls = <<[op |-> "GET /users"]>>
    /\ healthCalls = <<[op |-> "GET /health"]>>
    /\ server = <<Alice, AB>>

Init ==
    /\ InitComponent
    /\ latest = [on |-> FALSE, enroll |-> Null, verify |-> Null]

\* The same state, with the history of acquisitions recorded.
InitTracked ==
    /\ InitComponent
    /\ latest = [on |-> TRUE, enroll |-> Null, verify |-> Null]

\* The history after an acquisition of file was started for form, or (with
\* Null) after the code cleared the image of form.
Started(form, file) ==
    IF latest.on THEN [latest EXCEPT ![form] = file] ELSE latest

(***************************************************************************)
(* Notification channel.                                                   *)
(***************************************************************************)
\* showNotification(message, type): sets the notification and starts a
\* timer that will clear whatever notification is on display when it fires.
\* No earlier timer is cancelled.
showNotification(message, type) ==
    /\ Len(timers) < MaxTimers
    /\ notification' = [message |-> message, type |-> type]
    /\ timers' = Append([i \in 1..Len(timers) |-> FALSE], TRUE)

\* The oldest pending timer fires (all delays are equal, so timers fire in
\* the order they were started): setNotification(null).
TimerFire ==
    /\ timers # << >>
    /\ notification' = None
    /\ timers' = Tail(timers)
    /\ UNCHANGED <<server, latest, activeTab, isLoading, lists, enrollForm, verifyForm,
                   acquiring, submits, fetches>>

(***************************************************************************)
(* fetchHealth / fetchUsers: the synchronous part starts the request.      *)
(***************************************************************************)
fetchHealth ==
    /\ Len(healthCalls) < MaxFetch
    /\ healthCalls' = Append(healthCalls, [op |-> "GET /health"])

\* Mutant: the refresh of the user list is not started.
fetchUsers_NotStarted == UNCHANGED usersCalls

fetchUsers ==
    /\ Len(usersCalls) < MaxFetch
    /\ usersCalls' = Append(usersCalls, [op |-> "GET /users"])

\* The response of GET /health arrived and parsed: setSystemHealth(data).
HealthResponse(i, data) ==
    /\ i \in 1..Len(healthCalls)
    /\ systemHealth' = data
    /\ healthCalls' = RemoveAt(healthCalls, i)
    /\ UNCHANGED <<server, latest, activeTab, isLoading, notif, enrolledUsers, enrollForm,
                   verifyForm, acquiring, submits, usersCalls>>

\* fetch rejected or the body did not parse: console.error only.
HealthFail(i) ==
    /\ i \in 1..Len(healthCalls)
    /\ healthCalls' = RemoveAt(healthCalls, i)
    /\ UNCHANGED <<server, latest, activeTab, isLoading, notif, lists, enrollForm,
                   verifyForm, acquiring, submits, usersCalls>>

\* The response of GET /users arrived and parsed:
\* setEnrolledUsers(data.enrolled_users || []).
UsersResponse(i, data) ==
    /\ i \in 1..Len(usersCalls)
    /\ enrolledUsers' =
           IF "enrolled_users" \in DOMAIN data THEN data.enrolled_users
           ELSE << >>
    /\ usersCalls' = RemoveAt(usersCalls, i)
    /\ UNCHANGED <<server, latest, activeTab, isLoading, notif, systemHealth, enrollForm,
                   verifyForm, acquiring, submits, healthCalls>>

UsersFail(i) ==
    /\ i \in 1..Len(usersCalls)
    /\ usersCalls' = RemoveAt(usersCalls, i)
    /\ UNCHANGED <<server, latest, activeTab, isLoading, notif, lists, enrollForm,
                   verifyForm, acquiring, submits, healthCalls>>

(***************************************************************************)
(* Media acquisition.                                                      *)
(***************************************************************************)
\* Mutant: the size check refuses a file of exactly the limit.
handleFileSelect_RefusesLimit(file, isVerify) ==
    IF file = Null
    THEN UNCHANGED <<notif, readers>>
    ELSE IF ~StartsWith(FileInfo[file].type, ImagePrefix)
    THEN /\ showNotification("Please select an image file", "error")
         /\ UNCHANGED readers
    ELSE IF FileInfo[file].size >= MaxImageBytes
    THEN /\ showNotification("Image must be less than 5MB", "error")
         /\ UNCHANGED readers
    ELSE /\ Len(readers) < MaxReaders
         /\ readers' = Append(readers, [file |-> file, isVerify |-> isVerify])
         /\ UNCHANGED notif

\* handleFileSelect(file, isVerify), up to reader.readAsDataURL(file).
handleFileSelect(file, isVerify) ==
    IF file = Null
    THEN UNCHANGED <<notif, readers>>
    ELSE IF ~StartsWith(FileInfo[file].type, ImagePrefix)
    THEN /\ showNotification("Please select an image file", "error")
         /\ UNCHANGED readers
    ELSE IF FileInfo[file].size > MaxImageBytes
    THEN /\ showNotification("Image must be less than 5MB", "error")
         /\ UNCHANGED readers
    ELSE /\ Len(readers) < MaxReaders
         /\ readers' = Append(readers, [file |-> file, isVerify |-> isVerify])
         /\ UNCHANGED notif

\* onChange of the enroll tab's file input: handleFileSelect(files[0]).
SelectEnrollFile(file) ==
    /\ activeTab = "enroll"
    /\ handleFileSelect(file, FALSE)
    /\ latest' = IF readers' # readers
                 THEN Started("enroll", file) ELSE latest
    /\ UNCHANGED <<server, activeTab, isLoading, lists, enrollForm, verifyForm,
                   captures, submits, fetches>>

\* onChange of the verify tab's file input (rendered in file-upload mode).
SelectVerifyFile(file) ==
    /\ activeTab = "verify"
    /\ ~useCamera
    /\ handleFileSelect(file, TRUE)
    /\ latest' = IF readers' # readers
                 THEN Started("verify", file) ELSE latest
    /\ UNCHANGED <<server, activeTab, isLoading, lists, enrollForm, verifyForm,
                   captures, submits, fetches>>

\* reader.onload of the i-th pending read.
ReaderLoad(i) ==
    /\ i \in 1..Len(readers)
    /\ IF readers[i].isVerify
       THEN /\ verifyImage' = readers[i].file
            /\ verifyPreview' = DataUrl(readers[i].file)
            /\ UNCHANGED <<selectedFile, previewUrl>>
       ELSE /\ selectedFile' = readers[i].file
            /\ previewUrl' = DataUrl(readers[i].file)
            /\ UNCHANGED <<verifyImage, verifyPreview>>
    /\ readers' = RemoveAt(readers, i)
    /\ UNCHANGED <<server, latest, activeTab, isLoading, notif, lists, userId, event, token,
                   verificationResult, useCamera, captures, submits, fetches>>

\* The i-th pending read fails: handleFileSelect sets no onerror handler.
ReaderError(i) ==
    /\ i \in 1..Len(readers)
    /\ readers' = RemoveAt(readers, i)
    /\ UNCHANGED <<server, latest, activeTab, isLoading, notif, lists, enrollForm,
                   verifyForm, captures, submits, fetches>>

\* The "Use Camera" / "Use File Upload" button of the verify tab.
ToggleCamera ==
    /\ activeTab = "verify"
    /\ useCamera' = ~useCamera
    /\ verifyImage' = Null
    /\ verifyPreview' = None
    /\ latest' = Started("verify", Null)
    /\ UNCHANGED <<server, activeTab, isLoading, notif, lists, enrollForm, event,
                   token, verificationResult, acquiring, submits, fetches>>

\* "Capture Image": getScreenshot() returns a frame (or null while the
\* camera is not ready), and the frame is fetched into a blob.
CaptureClick(screenshot) ==
    /\ activeTab = "verify"
    /\ useCamera
    /\ IF screenshot = Null
       THEN UNCHANGED <<captures, latest>>
       ELSE /\ Len(captures) < MaxCaptures
            /\ captures' = Append(captures, screenshot)
            /\ latest' = Started("verify", screenshot)
    /\ UNCHANGED <<server, activeTab, isLoading, notif, lists, enrollForm,
                   verifyForm, readers, submits, fetches>>

\* The blob of the i-th pending capture is ready:
\* handleFileSelect(new File([blob], "webcam.jpg", ...), true).
CaptureDone(i) ==
    /\ i \in 1..Len(captures)
    /\ handleFileSelect(captures[i], TRUE)
    /\ captures' = RemoveAt(captures, i)
    /\ UNCHANGED <<server, latest, activeTab, isLoading, lists, enrollForm, verifyForm,
                   submits, fetches>>

(***************************************************************************)
(* Tabs and text inputs.                                                   *)
(***************************************************************************)
SetActiveTab(tab) ==
    /\ activeTab' = tab
    /\ UNCHANGED <<server, latest, isLoading, notif, lists, enrollForm, verifyForm,
                   acquiring, submits, fetches>>

SetUserId(value) ==
    /\ activeTab = "enroll"
    /\ userId' = value
    /\ UNCHANGED <<server, latest, activeTab, isLoading, notif, lists, selectedFile,
                   previewUrl, verifyForm, acquiring, submits, fetches>>

SetEvent(value) ==
    /\ activeTab = "verify"
    /\ event' = value
    /\ UNCHANGED <<server, latest, activeTab, isLoading, notif, lists, enrollForm, token,
                   verifyImage, verifyPreview, verificationResult, useCamera,
                   acquiring, submits, fetches>>

SetToken(value) ==
    /\ activeTab = "verify"
    /\ token' = value
    /\ UNCHANGED <<server, latest, activeTab, isLoading, notif, lists, enrollForm, event,
                   verifyImage, verifyPreview, verificationResult, useCamera,
                   acquiring, submits, fetches>>

(***************************************************************************)
(* Enroll form.                                                            *)
(***************************************************************************)
\* Mutant: the control ignores isLoading.
EnrollDisabled_IgnoresLoading == ~Truthy(userId) \/ selectedFile = Null

\* disabled={isLoading || !userId || !selectedFile}
EnrollDisabled == isLoading \/ ~Truthy(userId) \/ selectedFile = Null

\* Mutant: setIsLoading(true) is missing.
handleEnroll_NoLoading ==
    IF ~Truthy(Trim(userId))
    THEN /\ showNotification("Please enter a user ID", "error")
         /\ UNCHANGED <<isLoading, enrollCalls>>
    ELSE IF selectedFile = Null
    THEN /\ showNotification("Please select an image", "error")
         /\ UNCHANGED <<isLoading, enrollCalls>>
    ELSE /\ Len(enrollCalls) < MaxCalls
         /\ enrollCalls' =
                Append(enrollCalls,
                       [pc |-> "preliminary", userId |-> userId,
                        file |-> selectedFile])
         /\ UNCHANGED <<isLoading, notif>>

\* handleEnroll up to its first await.  The closure keeps the userId and
\* the selectedFile of the render in which the button was clicked.
handleEnroll ==
    IF ~Truthy(Trim(userId))
    THEN /\ showNotification("Please enter a user ID", "error")
         /\ UNCHANGED <<isLoading, enrollCalls>>
    ELSE IF selectedFile = Null
    THEN /\ showNotification("Please select an image", "error")
         /\ UNCHANGED <<isLoading, enrollCalls>>
    ELSE /\ Len(enrollCalls) < MaxCalls
         /\ isLoading' = TRUE
         /\ enrollCalls' =
                Append(enrollCalls,
                       [pc |-> "preliminary", userId |-> userId,
                        file |-> selectedFile])
         /\ UNCHANGED notif

\* A click on "Enroll Face": a disabled button delivers no click.
EnrollClick ==
    /\ activeTab = "enroll"
    /\ ~EnrollDisabled
    /\ handleEnroll
    /\ UNCHANGED <<server, latest, activeTab, lists, enrollForm, verifyForm, acquiring,
                   verifyCalls, deleteCalls, fetches>>

\* The HTTP request an enroll call is waiting for.
EnrollRequest(call) ==
    IF call.pc = "preliminary"
    THEN [method |-> "POST", path |-> "/enroll", query |-> << >>,
          json |-> [user_id |-> call.userId], file |-> Null]
    ELSE [method |-> "POST", path |-> "/enroll",
          query |-> encodeURIComponent(call.userId),
          json |-> None, file |-> call.file]

\* Mutant: the finally block of handleEnroll is missing.
EnrollCatch_NoFinally(i) ==
    /\ showNotification("Network error during enrollment", "error")
    /\ enrollCalls' = RemoveAt(enrollCalls, i)
    /\ UNCHANGED <<server, latest, activeTab, isLoading, lists, enrollForm, verifyForm,
                   acquiring, verifyCalls, deleteCalls, fetches>>

\* catch + finally of handleEnroll
EnrollCatch(i) ==
    /\ showNotification("Network error during enrollment", "error")
    /\ isLoading' = FALSE
    /\ enrollCalls' = RemoveAt(enrollCalls, i)
    /\ UNCHANGED <<server, latest, activeTab, lists, enrollForm, verifyForm, acquiring,
                   verifyCalls, deleteCalls, fetches>>

\* The preliminary JSON POST resolved (its status is never read): the
\* multipart request is sent.
EnrollPreliminaryResolved(i) ==
    /\ i \in 1..Len(enrollCalls)
    /\ enrollCalls[i].pc = "preliminary"
    /\ enrollCalls' = [enrollCalls EXCEPT ![i].pc = "actual"]
    /\ UNCHANGED <<server, latest, activeTab, isLoading, notif, lists, enrollForm,
                   verifyForm, acquiring, verifyCalls, deleteCalls, fetches>>

\* The preliminary JSON POST rejected (transport failure).
EnrollPreliminaryRejected(i) ==
    /\ i \in 1..Len(enrollCalls)
    /\ enrollCalls[i].pc = "preliminary"
    /\ EnrollCatch(i)

\* The multipart request returned 2xx.
EnrollActualOk(i) ==
    /\ i \in 1..Len(enrollCalls)
    /\ enrollCalls[i].pc = "actual"
    /\ showNotification("Face enrolled successfully!", "success")
    /\ userId' = << >>
    /\ selectedFile' = Null
    /\ previewUrl' = None
    /\ fetchUsers
    /\ fetchHealth
    /\ isLoading' = FALSE
    /\ enrollCalls' = RemoveAt(enrollCalls, i)
    /\ latest' = Started("enroll", Null)
    /\ UNCHANGED <<server, activeTab, lists, verifyForm, acquiring, verifyCalls,
                   deleteCalls>>

\* Mutant: the else branch resets the form as the ok branch does.
EnrollActualNotOk_ResetsForm(i, body) ==
    /\ i \in 1..Len(enrollCalls)
    /\ enrollCalls[i].pc = "actual"
    /\ showNotification(
           IF "detail" \in DOMAIN body /\ body.detail # ""
           THEN body.detail ELSE "Enrollment failed", "error")
    /\ userId' = << >>
    /\ selectedFile' = Null
    /\ previewUrl' = None
    /\ isLoading' = FALSE
    /\ enrollCalls' = RemoveAt(enrollCalls, i)
    /\ UNCHANGED <<server, latest, activeTab, lists, verifyForm, acquiring, verifyCalls,
                   deleteCalls, fetches>>

\* The multipart request returned non-2xx with a JSON body: the body's
\* detail, or the fallback when it has none.
EnrollActualNotOk(i, body) ==
    /\ i \in 1..Len(enrollCalls)
    /\ enrollCalls[i].pc = "actual"
    /\ showNotification(
           IF "detail" \in DOMAIN body /\ body.detail # ""
           THEN body.detail ELSE "Enrollment failed", "error")
    /\ isLoading' = FALSE
    /\ enrollCalls' = RemoveAt(enrollCalls, i)
    /\ UNCHANGED <<server, latest, activeTab, lists, enrollForm, verifyForm, acquiring,
                   verifyCalls, deleteCalls, fetches>>

\* The multipart request rejected, or returned non-2xx with a body that is
\* not JSON.
EnrollActualRejected(i) ==
    /\ i \in 1..Len(enrollCalls)
    /\ enrollCalls[i].pc = "actual"
    /\ EnrollCatch(i)

(***************************************************************************)
(* Verify form.                                                            *)
(***************************************************************************)
\* Mutant: the control ignores isLoading.
VerifyDisabled_IgnoresLoading == ~Truthy(token) \/ verifyImage = Null

\* disabled={isLoading || !token || !verifyImage}
VerifyDisabled == isLoading \/ ~Truthy(token) \/ verifyImage = Null

\* Mutant: setIsLoading(true) is missing.
handleVerify_NoLoading ==
    IF ~Truthy(Trim(token))
    THEN /\ showNotification("Please enter a JWT token", "error")
         /\ UNCHANGED <<isLoading, verificationResult, verifyCalls>>
    ELSE IF verifyImage = Null
    THEN /\ showNotification("Please select an image for verification",
                             "error")
         /\ UNCHANGED <<isLoading, verificationResult, verifyCalls>>
    ELSE /\ Len(verifyCalls) < MaxCalls
         /\ verificationResult' = None
         /\ verifyCalls' =
                Append(verifyCalls,
                       [pc |-> "encode", event |-> event, token |-> token,
                        image |-> verifyImage])
         /\ UNCHANGED <<isLoading, notif>>

\* Mutant: setVerificationResult(null) runs before the validation.
handleVerify_ClearsResultFirst ==
    IF ~Truthy(Trim(token))
    THEN /\ showNotification("Please enter a JWT token", "error")
         /\ verificationResult' = None
         /\ UNCHANGED <<isLoading, verifyCalls>>
    ELSE IF verifyImage = Null
    THEN /\ showNotification("Please select an image for verification",
                             "error")
         /\ verificationResult' = None
         /\ UNCHANGED <<isLoading, verifyCalls>>
    ELSE /\ Len(verifyCalls) < MaxCalls
         /\ isLoading' = TRUE
         /\ verificationResult' = None
         /\ verifyCalls' =
                Append(verifyCalls,
                       [pc |-> "encode", event |-> event, token |-> token,
                        image |-> verifyImage])
         /\ UNCHANGED notif

\* handleVerify up to its first await (fileToBase64).  The closure keeps
\* the event, token and verifyImage of the render of the click.
handleVerify ==
    IF ~Truthy(Trim(token))
    THEN /\ showNotification("Please enter a JWT token", "error")
         /\ UNCHANGED <<isLoading, verificationResult, verifyCalls>>
    ELSE IF verifyImage = Null
    THEN /\ showNotification("Please select an image for verification",
                             "error")
         /\ UNCHANGED <<isLoading, verificationResult, verifyCalls>>
    ELSE /\ Len(verifyCalls) < MaxCalls
         /\ isLoading' = TRUE
         /\ verificationResult' = None
         /\ verifyCalls' =
                Append(verifyCalls,
                       [pc |-> "encode", event |-> event, token |-> token,
                        image |-> verifyImage])
         /\ UNCHANGED notif

\* A click on "Verify Face".
VerifyClick ==
    /\ activeTab = "verify"
    /\ ~VerifyDisabled
    /\ handleVerify
    /\ UNCHANGED <<server, latest, activeTab, lists, enrollForm, event, token, verifyImage,
                   verifyPreview, useCamera, acquiring, enrollCalls,
                   deleteCalls, fetches>>

\* fileToBase64(file): the data URL of the file.
fileToBase64(file) == DataUrl(file)

\* The HTTP request a verify call in its fetch is waiting for.
VerifyRequest(call) ==
    [method |-> "POST", path |-> "/verify",
     json |-> [event |-> call.event, token |-> call.token,
               facial_data |-> SplitComma(fileToBase64(call.image))[2]]]

\* catch + finally of handleVerify
VerifyCatch(i) ==
    /\ showNotification("Network error during verification", "error")
    /\ isLoading' = FALSE
    /\ verifyCalls' = RemoveAt(verifyCalls, i)
    /\ UNCHANGED <<server, latest, activeTab, lists, enrollForm, verifyForm, acquiring,
                   enrollCalls, deleteCalls, fetches>>

\* Mutant: isLoading covers the encoding only, not the request.
VerifyEncoded_EndsLoading(i) ==
    /\ i \in 1..Len(verifyCalls)
    /\ verifyCalls[i].pc = "encode"
    /\ isLoading' = FALSE
    /\ verifyCalls' = [verifyCalls EXCEPT ![i].pc = "fetch"]
    /\ UNCHANGED <<server, latest, activeTab, notif, lists, enrollForm,
                   verifyForm, acquiring, enrollCalls, deleteCalls, fetches>>

\* fileToBase64 resolved: the request is sent.
VerifyEncoded(i) ==
    /\ i \in 1..Len(verifyCalls)
    /\ verifyCalls[i].pc = "encode"
    /\ verifyCalls' = [verifyCalls EXCEPT ![i].pc = "fetch"]
    /\ UNCHANGED <<server, latest, activeTab, isLoading, notif, lists, enrollForm,
                   verifyForm, acquiring, enrollCalls, deleteCalls, fetches>>

\* fileToBase64 rejected (reader.onerror).
VerifyEncodeRejected(i) ==
    /\ i \in 1..Len(verifyCalls)
    /\ verifyCalls[i].pc = "encode"
    /\ VerifyCatch(i)

\* Mutant: a body without a success field (the body of a non-2xx answer) is
\* thrown instead of stored.
VerifyResponse_ThrowsOnErrorBody(i, result) ==
    /\ i \in 1..Len(verifyCalls)
    /\ verifyCalls[i].pc = "fetch"
    /\ IF "success" \in DOMAIN result
       THEN /\ verificationResult' = result
            /\ IF result.success = TRUE
               THEN showNotification("Verification successful!", "success")
               ELSE showNotification("Verification failed", "error")
       ELSE /\ verificationResult' = verificationResult
            /\ showNotification("Network error during verification", "error")
    /\ isLoading' = FALSE
    /\ verifyCalls' = RemoveAt(verifyCalls, i)
    /\ UNCHANGED <<server, latest, activeTab, lists, enrollForm, event, token,
                   verifyImage, verifyPreview, useCamera, acquiring,
                   enrollCalls, deleteCalls, fetches>>

\* The response arrived, whatever its status, and its body parsed to an
\* object.
VerifyResponse(i, result) ==
    /\ i \in 1..Len(verifyCalls)
    /\ verifyCalls[i].pc = "fetch"
    /\ verificationResult' = result
    /\ IF "success" \in DOMAIN result /\ result.success = TRUE
       THEN showNotification("Verification successful!", "success")
       ELSE showNotification("Verification failed", "error")
    /\ isLoading' = FALSE
    /\ verifyCalls' = RemoveAt(verifyCalls, i)
    /\ UNCHANGED <<server, latest, activeTab, lists, enrollForm, event, token, verifyImage,
                   verifyPreview, useCamera, acquiring, enrollCalls,
                   deleteCalls, fetches>>

\* The request rejected, or the body of the response is not JSON.
VerifyRejected(i) ==
    /\ i \in 1..Len(verifyCalls)
    /\ verifyCalls[i].pc = "fetch"
    /\ VerifyCatch(i)

(***************************************************************************)
(* The two submit handlers as functions: called in whatever state the form *)
(* is in, including the states in which the control that calls them is     *)
(* disabled.                                                               *)
(***************************************************************************)
InvokeHandleEnroll ==
    /\ handleEnroll
    /\ UNCHANGED <<server, latest, activeTab, lists, enrollForm, verifyForm,
                   acquiring, verifyCalls, deleteCalls, fetches>>

InvokeHandleVerify ==
    /\ handleVerify
    /\ UNCHANGED <<server, latest, activeTab, lists, enrollForm, event, token,
                   verifyImage, verifyPreview, useCamera, acquiring,
                   enrollCalls, deleteCalls, fetches>>

(***************************************************************************)
(* Manage Users tab.                                                       *)
(***************************************************************************)
\* The HTTP request a deleteUser call is waiting for.
DeleteRequest(call) ==
    [method |-> "DELETE",
     path |-> <<"/enroll/">> \o encodeURIComponent(call.user)]

\* Mutant: the answer to the confirmation prompt is ignored.
deleteUser_IgnoresAnswer(userIdToDelete, confirmed) ==
    /\ Len(deleteCalls) < MaxDeletes
    /\ deleteCalls' = Append(deleteCalls, [user |-> userIdToDelete])

\* deleteUser(userIdToDelete) up to its await; window.confirm blocks the
\* event loop, so its answer is part of the same step.
deleteUser(userIdToDelete, confirmed) ==
    IF ~confirmed
    THEN UNCHANGED deleteCalls
    ELSE /\ Len(deleteCalls) < MaxDeletes
         /\ deleteCalls' = Append(deleteCalls, [user |-> userIdToDelete])

\* A click on the trash button of row k of the user list.
DeleteClick(k, confirmed) ==
    /\ activeTab = "users"
    /\ k \in 1..Len(enrolledUsers)
    /\ deleteUser(enrolledUsers[k], confirmed)
    /\ UNCHANGED <<server, latest, activeTab, isLoading, notif, lists, enrollForm,
                   verifyForm, acquiring, enrollCalls, verifyCalls, fetches>>

\* The DELETE returned 2xx.
DeleteOk(i) ==
    /\ i \in 1..Len(deleteCalls)
    /\ showNotification("User deleted successfully", "success")
    /\ fetchUsers
    /\ fetchHealth
    /\ deleteCalls' = RemoveAt(deleteCalls, i)
    /\ UNCHANGED <<server, latest, activeTab, isLoading, lists, enrollForm, verifyForm,
                   acquiring, enrollCalls, verifyCalls>>

\* The DELETE returned non-2xx with a JSON body.
DeleteNotOk(i, body) ==
    /\ i \in 1..Len(deleteCalls)
    /\ showNotification(
           IF "detail" \in DOMAIN body /\ body.detail # ""
           THEN body.detail ELSE "Failed to delete user", "error")
    /\ deleteCalls' = RemoveAt(deleteCalls, i)
    /\ UNCHANGED <<server, latest, activeTab, isLoading, lists, enrollForm, verifyForm,
                   acquiring, enrollCalls, verifyCalls, fetches>>

\* The DELETE rejected, or returned non-2xx with a body that is not JSON.
DeleteRejected(i) ==
    /\ i \in 1..Len(deleteCalls)
    /\ showNotification("Network error during deletion", "error")
    /\ deleteCalls' = RemoveAt(deleteCalls, i)
    /\ UNCHANGED <<server, latest, activeTab, isLoading, lists, enrollForm, verifyForm,
                   acquiring, enrollCalls, verifyCalls, fetches>>

\* The Refresh button: onClick={fetchUsers}.
RefreshClick ==
    /\ activeTab = "users"
    /\ fetchUsers
    /\ UNCHANGED <<server, latest, activeTab, isLoading, notif, lists, enrollForm,
                   verifyForm, acquiring, submits, healthCalls>>

(***************************************************************************)
(* The remote service answering from its own state.  A request is handled  *)
(* at some instant between its dispatch and the delivery of its answer;    *)
(* the answer carries the state of the service at that instant, and        *)
(* answers are delivered in any order.                                     *)
(***************************************************************************)
\* s without the elements equal to x
RECURSIVE Without(_, _)
Without(s, x) ==
    IF s = << >> THEN << >>
    ELSE IF Head(s) = x THEN Without(Tail(s), x)
    ELSE <<Head(s)>> \o Without(Tail(s), x)

\* The service handles GET /users: { enrolled_users: [...] }.
ServeUsers(i) ==
    /\ i \in 1..Len(usersCalls)
    /\ "body" \notin DOMAIN usersCalls[i]
    /\ usersCalls' =
           [usersCalls EXCEPT ![i] =
               [op |-> "GET /users", body |-> [enrolled_users |-> server]]]
    /\ UNCHANGED <<server, latest, activeTab, isLoading, notif, lists, enrollForm,
                   verifyForm, acquiring, submits, healthCalls>>

\* The service handles GET /health: { enrolled_users: <count> }.
ServeHealth(i) ==
    /\ i \in 1..Len(healthCalls)
    /\ "body" \notin DOMAIN healthCalls[i]
    /\ healthCalls' =
           [healthCalls EXCEPT ![i] =
               [op |-> "GET /health",
                body |-> [enrolled_users |-> Len(server)]]]
    /\ UNCHANGED <<server, latest, activeTab, isLoading, notif, lists, enrollForm,
                   verifyForm, acquiring, submits, usersCalls>>

\* The service handles DELETE /enroll/{user_id}: 2xx when the user was
\* enrolled, non-2xx with a detail otherwise.
ServeDelete(i) ==
    /\ i \in 1..Len(deleteCalls)
    /\ "ok" \notin DOMAIN deleteCalls[i]
    /\ LET user == PercentDecode(Tail(DeleteRequest(deleteCalls[i]).path))
           found == \E k \in 1..Len(server) : server[k] = user
       IN  /\ server' = Without(server, user)
           /\ deleteCalls' =
                  [deleteCalls EXCEPT ![i] =
                      [user |-> deleteCalls[i].user, ok |-> found]]
    /\ UNCHANGED <<latest, activeTab, isLoading, notif, lists, enrollForm,
                   verifyForm, acquiring, enrollCalls, verifyCalls, fetches>>

\* The answers of the service reach the component.
UsersDelivered(i) ==
    /\ i \in 1..Len(usersCalls)
    /\ "body" \in DOMAIN usersCalls[i]
    /\ UsersResponse(i, usersCalls[i].body)

HealthDelivered(i) ==
    /\ i \in 1..Len(healthCalls)
    /\ "body" \in DOMAIN healthCalls[i]
    /\ HealthResponse(i, healthCalls[i].body)

DeleteDelivered(i) ==
    /\ i \in 1..Len(deleteCalls)
    /\ "ok" \in DOMAIN deleteCalls[i]
    /\ IF deleteCalls[i].ok
       THEN DeleteOk(i)
       ELSE DeleteNotOk(i, [detail |-> "User not found"])

(***************************************************************************)
(* Inputs of the environment: what the user types and picks, and what the  *)
(* remote service answers.                                                 *)
(***************************************************************************)
\* What the user may type as a user id: nothing, whitespace only, a plain
\* id, an id with surrounding whitespace.
UserIdInputs == {<< >>, <<" ">>, Bob, <<" ">> \o Bob \o <<" ">>}

\* What the user may type as a token.
TokenInputs == {<< >>, <<" ">>, <<"t">>}

\* Bodies of GET /users.
UsersBodies ==
    { [enrolled_users |-> << >>],
      [enrolled_users |-> <<Alice>>],
      [enrolled_users |-> <<Alice, AB>>],
      [detail |-> "Internal Server Error"] }

\* Bodies of GET /health.
HealthBodies == { [enrolled_users |-> 0], [enrolled_users |-> 2] }

\* JSON bodies of a non-2xx answer to enroll or delete.
ErrorBodies == { [detail |-> "Face not detected"], [detail |-> ""] }

\* JSON bodies of an answer to verify: the service answers with an object,
\* a result or the detail of a non-2xx answer.
VerifyBodies ==
    { [success |-> TRUE, user_id |-> Bob, event |-> "login-event",
       confidence |-> 97, message |-> "match"],
      [success |-> FALSE, user_id |-> Bob, event |-> "login-event",
       confidence |-> 12, message |-> "no match"],
      [detail |-> "Invalid token"] }

(***************************************************************************)
(* The specifications.  The full product of all inputs is out of reach of  *)
(* an exhaustive search, so each specification below drives one part of    *)
(* the component with the inputs that part reads, and leaves the events of *)
(* the other parts out.  The parts meet in isLoading, in the notification  *)
(* and in the two refresh requests only: Spec drives both forms together   *)
(* for what depends on isLoading, and every specification includes the     *)
(* expiry timers.                                                          *)
(***************************************************************************)

(***************************************************************************)
(* Spec: the enroll form and the verify form together, with file upload as *)
(* the only acquisition mode, one valid file per form and one answer to    *)
(* each of the two refresh requests.                                       *)
(***************************************************************************)
Next ==
    \/ \E tab \in {"enroll", "verify"} : SetActiveTab(tab)
    \/ \E value \in {<< >>, Bob} : SetUserId(value)
    \/ \E value \in TokenInputs : SetToken(value)
    \/ SelectEnrollFile("face1")
    \/ SelectVerifyFile("face2")
    \/ \E i \in 1..MaxReaders : ReaderLoad(i)
    \/ EnrollClick
    \/ \E i \in 1..MaxCalls : EnrollPreliminaryResolved(i)
    \/ \E i \in 1..MaxCalls : EnrollPreliminaryRejected(i)
    \/ \E i \in 1..MaxCalls : EnrollActualOk(i)
    \/ \E i \in 1..MaxCalls : EnrollActualNotOk(i, [detail |-> ""])
    \/ \E i \in 1..MaxCalls : EnrollActualRejected(i)
    \/ VerifyClick
    \/ \E i \in 1..MaxCalls : VerifyEncoded(i)
    \/ \E i \in 1..MaxCalls : VerifyEncodeRejected(i)
    \/ \E i \in 1..MaxCalls, result \in VerifyBodies : VerifyResponse(i, result)
    \/ \E i \in 1..MaxCalls : VerifyRejected(i)
    \/ \E i \in 1..MaxFetch : UsersResponse(i, [enrolled_users |-> << >>])
    \/ \E i \in 1..MaxFetch : HealthResponse(i, [enrolled_users |-> 0])
    \/ TimerFire

Spec == Init /\ [][Next]_vars

(***************************************************************************)
(* SpecEnroll: the enroll form alone, with every user id the user may type,*)
(* every file the user may pick and every answer of the service.           *)
(***************************************************************************)
NextEnroll ==
    \/ \E tab \in {"enroll", "users"} : SetActiveTab(tab)
    \/ \E value \in UserIdInputs : SetUserId(value)
    \/ \E file \in {"face1", "notes", Null} : SelectEnrollFile(file)
    \/ \E i \in 1..MaxReaders : ReaderLoad(i)
    \/ \E i \in 1..MaxReaders : ReaderError(i)
    \/ EnrollClick
    \/ \E i \in 1..MaxCalls : EnrollPreliminaryResolved(i)
    \/ \E i \in 1..MaxCalls : EnrollPreliminaryRejected(i)
    \/ \E i \in 1..MaxCalls : EnrollActualOk(i)
    \/ \E i \in 1..MaxCalls, body \in ErrorBodies : EnrollActualNotOk(i, body)
    \/ \E i \in 1..MaxCalls : EnrollActualRejected(i)
    \/ \E i \in 1..MaxFetch : UsersResponse(i, [enrolled_users |-> <<Alice>>])
    \/ \E i \in 1..MaxFetch : UsersFail(i)
    \/ \E i \in 1..MaxFetch : HealthResponse(i, [enrolled_users |-> 2])
    \/ \E i \in 1..MaxFetch : HealthFail(i)
    \/ TimerFire

SpecEnroll == Init /\ [][NextEnroll]_vars

(***************************************************************************)
(* SpecVerify: the verify form alone, with both acquisition modes.         *)
(***************************************************************************)
NextVerify ==
    \/ \E tab \in {"enroll", "verify"} : SetActiveTab(tab)
    \/ \E value \in {events[1], events[3]} : SetEvent(value)
    \/ \E value \in TokenInputs : SetToken(value)
    \/ \E file \in {"face1", "huge"} : SelectVerifyFile(file)
    \/ ToggleCamera
    \/ \E screenshot \in {"frame1", Null} : CaptureClick(screenshot)
    \/ \E i \in 1..MaxCaptures : CaptureDone(i)
    \/ \E i \in 1..MaxReaders : ReaderLoad(i)
    \/ \E i \in 1..MaxReaders : ReaderError(i)
    \/ VerifyClick
    \/ \E i \in 1..MaxCalls : VerifyEncoded(i)
    \/ \E i \in 1..MaxCalls : VerifyEncodeRejected(i)
    \/ \E i \in 1..MaxCalls, result \in VerifyBodies : VerifyResponse(i, result)
    \/ \E i \in 1..MaxCalls : VerifyRejected(i)
    \/ \E i \in 1..MaxFetch : UsersFail(i)
    \/ \E i \in 1..MaxFetch : HealthFail(i)
    \/ TimerFire

SpecVerify == Init /\ [][NextVerify]_vars

(***************************************************************************)
(* SpecAcquire: media acquisition for both forms, with a file of every     *)
(* kind the user may pick (acceptable, of exactly the size limit, one byte *)
(* over it, not an image, of unknown type) and a camera frame; no          *)
(* submission.                                                             *)
(***************************************************************************)
NextAcquire ==
    \/ \E tab \in {"enroll", "verify"} : SetActiveTab(tab)
    \/ \E file \in (PickedFiles \ {"face1"}) \cup {Null} : SelectEnrollFile(file)
    \/ \E file \in (PickedFiles \ {"face2"}) \cup {Null} : SelectVerifyFile(file)
    \/ ToggleCamera
    \/ \E screenshot \in {"frame1", Null} : CaptureClick(screenshot)
    \/ \E i \in 1..MaxCaptures : CaptureDone(i)
    \/ \E i \in 1..MaxReaders : ReaderLoad(i)
    \/ \E i \in 1..MaxReaders : ReaderError(i)
    \/ \E i \in 1..MaxFetch : UsersFail(i)
    \/ \E i \in 1..MaxFetch : HealthFail(i)
    \/ TimerFire

SpecAcquire == Init /\ [][NextAcquire]_vars

(***************************************************************************)
(* SpecUsers: the Manage Users tab, the two refresh requests and the       *)
(* notification channel.                                                   *)
(***************************************************************************)
NextUsers ==
    \/ \E tab \in {"enroll", "users"} : SetActiveTab(tab)
    \/ RefreshClick
    \/ \E k \in 1..2, confirmed \in BOOLEAN : DeleteClick(k, confirmed)
    \/ \E i \in 1..MaxDeletes : DeleteOk(i)
    \/ \E i \in 1..MaxDeletes, body \in ErrorBodies : DeleteNotOk(i, body)
    \/ \E i \in 1..MaxDeletes : DeleteRejected(i)
    \/ \E i \in 1..MaxFetch, data \in UsersBodies : UsersResponse(i, data)
    \/ \E i \in 1..MaxFetch : UsersFail(i)
    \/ \E i \in 1..MaxFetch, data \in HealthBodies : HealthResponse(i, data)
    \/ \E i \in 1..MaxFetch : HealthFail(i)
    \/ TimerFire

SpecUsers == Init /\ [][NextUsers]_vars

(***************************************************************************)
(* SpecLive: both forms with one input each and every outcome of every     *)
(* asynchronous step, under the scheduling the browser provides: a timer   *)
(* that was started fires, a FileReader read ends in onload or onerror,    *)
(* and a fetch that was started resolves or rejects.  The continuation of  *)
(* an await runs once its promise has settled, whatever else is pending:   *)
(* weak fairness of each pending step.                                     *)
(***************************************************************************)
NextLive ==
    \/ \E tab \in {"enroll", "verify"} : SetActiveTab(tab)
    \/ SetUserId(Bob)
    \/ SetToken(<<"t">>)
    \/ SelectEnrollFile("face1")
    \/ SelectVerifyFile("face1")
    \/ \E i \in 1..MaxReaders : ReaderLoad(i)
    \/ EnrollClick
    \/ \E i \in 1..MaxCalls : EnrollPreliminaryResolved(i)
    \/ \E i \in 1..MaxCalls : EnrollPreliminaryRejected(i)
    \/ \E i \in 1..MaxCalls : EnrollActualOk(i)
    \/ \E i \in 1..MaxCalls : EnrollActualNotOk(i, [detail |-> ""])
    \/ \E i \in 1..MaxCalls : EnrollActualRejected(i)
    \/ VerifyClick
    \/ \E i \in 1..MaxCalls : VerifyEncoded(i)
    \/ \E i \in 1..MaxCalls : VerifyEncodeRejected(i)
    \/ \E i \in 1..MaxCalls :
           VerifyResponse(i, [detail |-> "Invalid token"])
    \/ \E i \in 1..MaxCalls : VerifyRejected(i)
    \/ \E i \in 1..MaxFetch : UsersFail(i)
    \/ \E i \in 1..MaxFetch : HealthFail(i)
    \/ TimerFire

\* Every pending step of a submission eventually ends in one of its outcomes.
EnrollPreliminarySettles(i) ==
    EnrollPreliminaryResolved(i) \/ EnrollPreliminaryRejected(i)

EnrollActualSettles(i) ==
    \/ EnrollActualOk(i)
    \/ EnrollActualNotOk(i, [detail |-> ""])
    \/ EnrollActualRejected(i)

VerifyEncodeSettles(i) == VerifyEncoded(i) \/ VerifyEncodeRejected(i)

VerifyFetchSettles(i) ==
    VerifyResponse(i, [detail |-> "Invalid token"]) \/ VerifyRejected(i)

Fairness ==
    /\ WF_vars(TimerFire)
    /\ \A i \in 1..MaxFetch : WF_vars(UsersFail(i))
    /\ \A i \in 1..MaxFetch : WF_vars(HealthFail(i))
    /\ \A i \in 1..MaxCalls : WF_vars(EnrollPreliminarySettles(i))
    /\ \A i \in 1..MaxCalls : WF_vars(EnrollActualSettles(i))
    /\ \A i \in 1..MaxCalls : WF_vars(VerifyEncodeSettles(i))
    /\ \A i \in 1..MaxCalls : WF_vars(VerifyFetchSettles(i))

SpecLive == Init /\ [][NextLive]_vars /\ Fairness

(***************************************************************************)
(* SpecServer: the Manage Users tab against the service's own state: the   *)
(* refresh requests of the mount effect, the Refresh button, confirmed     *)
(* deletes and the refreshes they start, every request handled by the      *)
(* service at some instant and every answer delivered at some later one.   *)
(***************************************************************************)
NextServer ==
    \/ \E tab \in {"enroll", "users"} : SetActiveTab(tab)
    \/ RefreshClick
    \/ \E k \in 1..2 : DeleteClick(k, TRUE)
    \/ \E i \in 1..MaxFetch : ServeUsers(i)
    \/ \E i \in 1..MaxFetch : ServeHealth(i)
    \/ \E i \in 1..MaxDeletes : ServeDelete(i)
    \/ \E i \in 1..MaxFetch : UsersDelivered(i)
    \/ \E i \in 1..MaxFetch : HealthDelivered(i)
    \/ \E i \in 1..MaxDeletes : DeleteDelivered(i)
    \/ TimerFire

SpecServer == Init /\ [][NextServer]_vars

(***************************************************************************)
(* SpecHandlers: handleEnroll and handleVerify called in every state of    *)
(* the two forms (user id and token empty, blank or filled; image selected *)
(* or not), whatever the disabled attribute of their controls.             *)
(***************************************************************************)
NextHandlers ==
    \/ \E tab \in {"enroll", "verify"} : SetActiveTab(tab)
    \/ \E value \in {<< >>, <<" ">>, Bob} : SetUserId(value)
    \/ \E value \in TokenInputs : SetToken(value)
    \/ SelectEnrollFile("face1")
    \/ SelectVerifyFile("face2")
    \/ \E i \in 1..MaxReaders : ReaderLoad(i)
    \/ InvokeHandleEnroll
    \/ \E i \in 1..MaxCalls : EnrollPreliminaryRejected(i)
    \/ InvokeHandleVerify
    \/ \E i \in 1..MaxCalls : VerifyEncoded(i)
    \/ \E i \in 1..MaxCalls :
           VerifyResponse(i, [detail |-> "Invalid token"])
    \/ TimerFire

SpecHandlers == Init /\ [][NextHandlers]_vars

(***************************************************************************)
(* SpecRace: acquisitions that overlap each other and the clears of the    *)
(* code, with the history of acquisitions recorded: two valid files for    *)
(* the enroll form, a valid file and a camera frame for the verify form,   *)
(* the mode toggle, and an enroll submission that succeeds.  Every read    *)
(* completes with onload, in any order.                                    *)
(***************************************************************************)
NextRace ==
    \/ \E tab \in {"enroll", "verify"} : SetActiveTab(tab)
    \/ \E file \in {"face1", "face2"} : SelectEnrollFile(file)
    \/ SelectVerifyFile("face1")
    \/ ToggleCamera
    \/ CaptureClick("frame1")
    \/ \E i \in 1..MaxCaptures : CaptureDone(i)
    \/ \E i \in 1..MaxReaders : ReaderLoad(i)
    \/ SetUserId(Bob)
    \/ EnrollClick
    \/ \E i \in 1..MaxCalls : EnrollPreliminaryResolved(i)
    \/ \E i \in 1..MaxCalls : EnrollActualOk(i)
    \/ \E i \in 1..MaxFetch : UsersFail(i)
    \/ \E i \in 1..MaxFetch : HealthFail(i)
    \/ TimerFire

SpecRace == InitTracked /\ [][NextRace]_vars

(***************************************************************************)
(*                               CLAIMS                                    *)
(***************************************************************************)

\* The DELETE request of call is addressed to /enroll/u.
AddressedTo(call, u) ==
    LET request == DeleteRequest(call)
    IN  /\ request.method = "DELETE"
        /\ Head(request.path) = "/enroll/"
        /\ PercentDecode(Tail(request.path)) = u
        /\ u = Alice => request.path = <<"/enroll/">> \o Alice

(***************************************************************************)
(* C1.  A click on a row's delete button whose confirmation prompt is      *)
(* declined issues no DELETE request; one whose prompt is confirmed issues *)
(* exactly one, addressed to /enroll/<that row's user>; and the number of  *)
(* DELETE requests in the network grows in no other step.                  *)
(***************************************************************************)
C1_DeleteNeedsConfirmation ==
    [][ /\ \A k \in 1..Len(enrolledUsers) :
             /\ DeleteClick(k, FALSE) => deleteCalls' = deleteCalls
             /\ DeleteClick(k, TRUE) =>
                   /\ Len(deleteCalls') = Len(deleteCalls) + 1
                   /\ SubSeq(deleteCalls', 1, Len(deleteCalls)) = deleteCalls
                   /\ AddressedTo(deleteCalls'[Len(deleteCalls')],
                                  enrolledUsers[k])
        /\ Len(deleteCalls') > Len(deleteCalls) =>
               /\ activeTab = "users"
               /\ \E k \in 1..Len(enrolledUsers) :
                      /\ Len(deleteCalls') = Len(deleteCalls) + 1
                      /\ AddressedTo(deleteCalls'[Len(deleteCalls')],
                                     enrolledUsers[k])
      ]_vars

\* A confirmed delete of the user "a b" is in flight.
C1_Witness ==
    \E i \in 1..Len(deleteCalls) :
        /\ deleteCalls[i].user = AB
        /\ DeleteRequest(deleteCalls[i]).path
               = <<"/enroll/", "a", "%", "2", "0", "b">>

(***************************************************************************)
(* C2.  A notification on display is cleared only by the expiry timer of   *)
(* the showNotification call that raised it: the timer of an earlier call  *)
(* never clears a later notification.                                      *)
(***************************************************************************)
C2_TimerClearsOnlyItsOwnNotification ==
    [][ (notification # None /\ notification' = None)
            => (timers # << >> /\ Head(timers) = TRUE) ]_vars

(***************************************************************************)
(* C3.  The enroll submit control is disabled if and only if userId is     *)
(* empty or whitespace-only or no enroll image is acquired.                *)
(***************************************************************************)
C3_EnrollDisabledIffBlankOrNoImage ==
    EnrollDisabled <=> (Trim(userId) = << >> \/ selectedFile = Null)

(***************************************************************************)
(* C4 as stated.  The verify submit control is disabled if and only if     *)
(* token is empty or no verify image is acquired.                          *)
(***************************************************************************)
C4_VerifyDisabledIffEmptyOrNoImage ==
    VerifyDisabled <=> (token = << >> \/ verifyImage = Null)

(***************************************************************************)
(* C4 as amended.  The verify submit control is disabled if and only if    *)
(* token is empty, or no verify image is acquired, or a submission of the  *)
(* enroll form or of the verify form is in flight.                         *)
(***************************************************************************)
C4_VerifyDisabledIffEmptyOrNoImageOrInFlight ==
    VerifyDisabled <=>
        \/ token = << >>
        \/ verifyImage = Null
        \/ enrollCalls # << >>
        \/ verifyCalls # << >>

\* The form is filled, a verify submission is in flight, the control is
\* disabled.
C4_Witness ==
    /\ token = <<" ">> \/ token = <<"t">>
    /\ verifyImage # Null
    /\ verifyCalls # << >>
    /\ VerifyDisabled

(***************************************************************************)
(* C5.  The step that handles a 2xx answer to the multipart enroll request *)
(* issues exactly one more list-users request and exactly one more health  *)
(* request, and resets userId, the selected image and the preview.         *)
(***************************************************************************)
C5_SuccessfulEnrollRefreshesAndResets ==
    [][ \A i \in 1..Len(enrollCalls) :
            EnrollActualOk(i) =>
                /\ Len(usersCalls') = Len(usersCalls) + 1
                /\ Len(healthCalls') = Len(healthCalls) + 1
                /\ userId' = << >>
                /\ selectedFile' = Null
                /\ previewUrl' = None
      ]_vars

\* Right after a successful enroll: both refreshes in flight, form empty.
C5_Witness ==
    /\ notification # None
    /\ notification.message = "Face enrolled successfully!"
    /\ enrollCalls = << >>
    /\ usersCalls # << >>
    /\ healthCalls # << >>
    /\ userId = << >> /\ selectedFile = Null /\ previewUrl = None

(***************************************************************************)
(* C6.  Every switch of the acquisition mode leaves the verify form with   *)
(* no verify image, no verify preview and no VerificationResult.           *)
(***************************************************************************)
C6_ModeSwitchClearsImageAndResult ==
    [][ useCamera' # useCamera =>
            /\ verifyImage' = Null
            /\ verifyPreview' = None
            /\ verificationResult' = None
      ]_vars

(***************************************************************************)
(* C7.  A step that hands a non-null file to handleFileSelect (a pick in   *)
(* either form, or a finished camera capture) starts encoding that file    *)
(* if and only if its MIME type begins with "image/" and its size is at    *)
(* most 5*1024*1024 bytes; for every other file it raises an error         *)
(* notification, starts no encoding, and leaves the image and the preview  *)
(* of both forms as they were.                                             *)
(***************************************************************************)
C7_Acceptable(f) ==
    /\ Len(FileInfo[f].type) >= 6
    /\ SubSeq(FileInfo[f].type, 1, 6) = <<"i", "m", "a", "g", "e", "/">>
    /\ FileInfo[f].size <= 5 * 1024 * 1024

C7_Hands(f, isVerify) ==
    IF isVerify
    THEN \/ SelectVerifyFile(f)
         \/ \E i \in 1..Len(captures) : captures[i] = f /\ CaptureDone(i)
    ELSE SelectEnrollFile(f)

C7_FileSelectValidates ==
    [][ \A f \in PickedFiles \cup CameraFrames, isVerify \in BOOLEAN :
            C7_Hands(f, isVerify) =>
                IF C7_Acceptable(f)
                THEN /\ readers' =
                            Append(readers,
                                   [file |-> f, isVerify |-> isVerify])
                     /\ notification' = notification
                ELSE /\ readers' = readers
                     /\ notification' # None
                     /\ notification'.type = "error"
                     /\ <<selectedFile', previewUrl'>>
                            = <<selectedFile, previewUrl>>
                     /\ <<verifyImage', verifyPreview'>>
                            = <<verifyImage, verifyPreview>>
      ]_vars

\* The file of exactly 5 MiB was accepted and stored; a later pick of the
\* file of 5 MiB + 1 byte was refused and left it in place.
C7_Witness ==
    /\ selectedFile = "face2"
    /\ previewUrl = DataUrl("face2")
    /\ readers = << >>
    /\ notification # None
    /\ notification.message = "Image must be less than 5MB"

(***************************************************************************)
(* C8.  In no reachable state are two enroll submissions in flight, or two *)
(* verify submissions in flight; and while a submission of a form is in    *)
(* flight that form's submit control is disabled.                          *)
(***************************************************************************)
C8_NoReentrantSubmit ==
    /\ Len(enrollCalls) <= 1
    /\ Len(verifyCalls) <= 1
    /\ enrollCalls # << >> => EnrollDisabled
    /\ verifyCalls # << >> => VerifyDisabled

\* An enroll submission is in flight while the enroll form is on screen and
\* still filled in: a second click is what the control refuses.
C8_Witness ==
    /\ Len(enrollCalls) = 1
    /\ activeTab = "enroll"
    /\ userId # << >>
    /\ selectedFile # Null

C10_SecondVerifyWhileFirstInFlight ==
    (verifyCalls # << >> /\ token # << >> /\ verifyImage # Null)
        => ~VerifyDisabled

(***************************************************************************)
(* C10 as amended.  Two verify submissions are never in flight together:   *)
(* the displayed VerificationResult changes only when a submission starts  *)
(* while none is in flight (it is cleared), or when the answer of the      *)
(* single in-flight request arrives (it becomes that answer's body).       *)
(***************************************************************************)
C10_SingleVerifyDeterminesResult ==
    [][ /\ Len(verifyCalls') <= 1
        /\ verificationResult' # verificationResult =>
             \/ /\ verificationResult' = None
                /\ verifyCalls = << >>
                /\ Len(verifyCalls') = 1
             \/ /\ verificationResult' \in VerifyBodies
                /\ Len(verifyCalls) = 1
                /\ verifyCalls[1].pc = "fetch"
                /\ verifyCalls' = << >>
      ]_vars

\* Request 2 is in flight after the answer to request 1 has been shown.
C10_Witness ==
    /\ Len(verifyCalls) = 1
    /\ notification # None
    /\ notification.message = "Verification failed"

(***************************************************************************)
(* C11.  Every step that stores a new verify image (the load of a file     *)
(* picked or captured for the verify form) leaves the verify form with no  *)
(* VerificationResult: a result received earlier is never on display       *)
(* together with an image stored after it.                                 *)
(***************************************************************************)
C11_NewVerifyImageClearsResult ==
    [][ \A i \in 1..Len(readers) :
            (readers[i].isVerify /\ ReaderLoad(i)) =>
                verificationResult' = None
      ]_vars

(***************************************************************************)
(* C12.  Every switch of the active tab leaves the form of the tab that is *)
(* left with no image and no preview; the step that handles a 2xx answer   *)
(* to an enroll submission leaves the enroll form with no image and no     *)
(* preview; and the step that handles the parsed answer to a verify        *)
(* submission leaves the verify form with no image and no preview.         *)
(***************************************************************************)
C12_ImageDiscardedOnTabSwitchAndSubmit ==
    [][ /\ (activeTab' # activeTab /\ activeTab = "enroll") =>
               (selectedFile' = Null /\ previewUrl' = None)
        /\ (activeTab' # activeTab /\ activeTab = "verify") =>
               (verifyImage' = Null /\ verifyPreview' = None)
        /\ \A i \in 1..Len(enrollCalls) :
               EnrollActualOk(i) =>
                   (selectedFile' = Null /\ previewUrl' = None)
        /\ \A i \in 1..Len(verifyCalls), result \in VerifyBodies :
               VerifyResponse(i, result) =>
                   (verifyImage' = Null /\ verifyPreview' = None)
      ]_vars

(***************************************************************************)
(* C13.  Every enroll or verify submission that is in flight eventually    *)
(* leaves the component idle again: no submission pending and isLoading    *)
(* false, whatever the outcomes of its steps, provided each pending step   *)
(* eventually settles.                                                     *)
(***************************************************************************)
C13_SubmissionReturnsToIdle ==
    (enrollCalls # << >> \/ verifyCalls # << >>)
        ~> (~isLoading /\ enrollCalls = << >> /\ verifyCalls = << >>)

\* An enroll submission ended in a transport failure, and the filled-in
\* form can be submitted again.
C13_Witness ==
    /\ notification # None
    /\ notification.message = "Network error during enrollment"
    /\ enrollCalls = << >>
    /\ ~isLoading
    /\ ~EnrollDisabled

(***************************************************************************)
(* C14.  The step in which an enroll submission ends with an error         *)
(* notification (a non-2xx answer or a transport failure) leaves userId,   *)
(* the selected image and its preview unchanged; the step in which a       *)
(* verify submission ends in a transport failure leaves event, token, the  *)
(* verify image and its preview unchanged.                                 *)
(***************************************************************************)
C14_FailedSubmissionPreservesInputs ==
    [][ /\ ( /\ Len(enrollCalls') < Len(enrollCalls)
             /\ notification' # None
             /\ notification'.type = "error" ) =>
               <<userId', selectedFile', previewUrl'>>
                   = <<userId, selectedFile, previewUrl>>
        /\ ( /\ Len(verifyCalls') < Len(verifyCalls)
             /\ notification' # None
             /\ notification'.message = "Network error during verification"
           ) =>
               <<event', token', verifyImage', verifyPreview'>>
                   = <<event, token, verifyImage, verifyPreview>>
      ]_vars

\* An enroll submission was answered non-2xx and the form is as it was
\* submitted.
C14_Witness ==
    /\ notification # None
    /\ notification.message = "Enrollment failed"
    /\ enrollCalls = << >>
    /\ userId = Bob
    /\ selectedFile = "face1"
    /\ previewUrl = DataUrl("face1")

(***************************************************************************)
(* C15.  Every step that handles the failure of a remote operation         *)
(* (enroll, verify, delete, list-users, health) raises an error            *)
(* notification.                                                           *)
(***************************************************************************)
C15_Raised ==
    /\ timers' # timers
    /\ notification' # None
    /\ notification'.type = "error"

C15_EveryRemoteFailureNotifies ==
    [][ /\ \A i \in 1..Len(enrollCalls) :
               ( \/ EnrollPreliminaryRejected(i)
                 \/ EnrollActualRejected(i)
                 \/ \E body \in ErrorBodies : EnrollActualNotOk(i, body) )
                   => C15_Raised
        /\ \A i \in 1..Len(verifyCalls) :
               (VerifyEncodeRejected(i) \/ VerifyRejected(i)) => C15_Raised
        /\ \A i \in 1..Len(deleteCalls) :
               ( \/ DeleteRejected(i)
                 \/ \E body \in ErrorBodies : DeleteNotOk(i, body) )
                   => C15_Raised
        /\ \A i \in 1..Len(usersCalls) : UsersFail(i) => C15_Raised
        /\ \A i \in 1..Len(healthCalls) : HealthFail(i) => C15_Raised
      ]_vars

(***************************************************************************)
(* C16.  Once a delete has succeeded and every list-users, health and      *)
(* delete request has returned, the displayed user list and the displayed  *)
(* count are those of the service.                                         *)
(***************************************************************************)
C16_DisplayFreshAfterMutation ==
    ( /\ notification # None
      /\ notification.message = "User deleted successfully"
      /\ usersCalls = << >>
      /\ healthCalls = << >>
      /\ deleteCalls = << >> ) =>
        /\ enrolledUsers = server
        /\ systemHealth = [enrolled_users |-> Len(server)]

(***************************************************************************)
(* C17.  The user id carried by every enroll request in flight (in the     *)
(* JSON body of the preliminary request, in the user_id query parameter of *)
(* the multipart request) is non-empty and has no leading or trailing      *)
(* whitespace.                                                             *)
(***************************************************************************)
C17_CarriedUserId(call) ==
    IF call.pc = "preliminary"
    THEN EnrollRequest(call).json.user_id
    ELSE PercentDecode(EnrollRequest(call).query)

C17_RequestUserIdTrimmed ==
    \A i \in 1..Len(enrollCalls) :
        /\ C17_CarriedUserId(enrollCalls[i]) # << >>
        /\ Head(C17_CarriedUserId(enrollCalls[i])) # " "
        /\ C17_CarriedUserId(enrollCalls[i])
               [Len(C17_CarriedUserId(enrollCalls[i]))] # " "

(***************************************************************************)
(* C18.  Whatever the outcome of the preliminary JSON POST, the step that  *)
(* handles it sends the multipart request and changes nothing else: no     *)
(* notification, no change of isLoading, of the form or of the refresh     *)
(* requests, so that the enrollment proceeds as if the preliminary POST    *)
(* had not been issued.                                                    *)
(***************************************************************************)
C18_PreliminaryPostHasNoEffect ==
    [][ \A i \in 1..Len(enrollCalls) :
            (enrollCalls[i].pc = "preliminary" /\ enrollCalls' # enrollCalls)
                => /\ Len(enrollCalls') = Len(enrollCalls)
                   /\ enrollCalls'[i] = [enrollCalls[i] EXCEPT !.pc = "actual"]
                   /\ UNCHANGED <<notification, isLoading, enrollForm,
                                  fetches>>
      ]_vars

(***************************************************************************)
(* C19.  In every reachable state, for every enroll submission at its      *)
(* preliminary or its multipart request and every verify submission at its *)
(* image encoding or its request, isLoading is true and the submit         *)
(* controls of both forms are disabled.                                    *)
(***************************************************************************)
C19_LoadingCoversEveryStage ==
    /\ \A i \in 1..Len(enrollCalls) :
           enrollCalls[i].pc \in {"preliminary", "actual"} =>
               (isLoading /\ EnrollDisabled /\ VerifyDisabled)
    /\ \A i \in 1..Len(verifyCalls) :
           verifyCalls[i].pc \in {"encode", "fetch"} =>
               (isLoading /\ VerifyDisabled /\ EnrollDisabled)

\* A verify submission is at its request, past the encoding, with the form
\* still filled in.
C19_Witness ==
    /\ Len(verifyCalls) = 1
    /\ verifyCalls[1].pc = "fetch"
    /\ activeTab = "verify"
    /\ token = <<"t">>
    /\ verifyImage = "face2"
    /\ isLoading

(***************************************************************************)
(* C20.  The step that ends a verify submission at its request either      *)
(* stores the parsed body of the answer as the VerificationResult,         *)
(* whatever the status of the answer, and raises "Verification             *)
(* successful!" with severity success when the body's success is true and  *)
(* "Verification failed" with severity error otherwise; or, when the       *)
(* request failed or the body did not parse, raises the network-error      *)
(* notification and leaves the VerificationResult null.                    *)
(***************************************************************************)
C20_NetworkError ==
    /\ notification' # None
    /\ notification'.message = "Network error during verification"
    /\ notification'.type = "error"

C21_Blocked ==
    /\ UNCHANGED <<enrollCalls, verifyCalls, deleteCalls, usersCalls,
                   healthCalls, readers, captures>>
    /\ UNCHANGED <<isLoading, enrollForm, verifyForm>>
    /\ timers' # timers
    /\ notification' # None
    /\ notification'.type = "error"

C21_ValidationErrorBlocksDispatch ==
    [][ /\ ( /\ InvokeHandleEnroll
             /\ (Trim(userId) = << >> \/ selectedFile = Null) ) => C21_Blocked
        /\ ( /\ InvokeHandleVerify
             /\ (Trim(token) = << >> \/ verifyImage = Null) ) => C21_Blocked
      ]_vars

\* handleVerify was called with a token but no verify image while an
\* earlier result was on display: the call was refused and the result is
\* still there.
C21_Witness ==
    /\ notification # None
    /\ notification.message = "Please select an image for verification"
    /\ token = <<"t">>
    /\ verifyImage = Null
    /\ verifyCalls = << >>
    /\ ~isLoading

(***************************************************************************)
(* C22.  Once no encoding and no capture of a form is pending, the image   *)
(* and the preview of the form are those of the file whose acquisition was *)
(* started last, whatever the order in which the encodings completed; and  *)
(* in every state the image and the preview of a form belong to the same   *)
(* file.                                                                   *)
(***************************************************************************)
C22_Pending(isVerify) ==
    \/ \E i \in 1..Len(readers) : readers[i].isVerify = isVerify
    \/ isVerify /\ captures # << >>

C22_LastAcquisitionWins ==
    /\ (latest.enroll # Null /\ ~C22_Pending(FALSE)) =>
           /\ selectedFile = latest.enroll
           /\ previewUrl = DataUrl(latest.enroll)
    /\ (latest.verify # Null /\ ~C22_Pending(TRUE)) =>
           /\ verifyImage = latest.verify
           /\ verifyPreview = DataUrl(latest.verify)
    /\ IF selectedFile = Null THEN previewUrl = None
       ELSE previewUrl = DataUrl(selectedFile)
    /\ IF verifyImage = Null THEN verifyPreview = None
       ELSE verifyPreview = DataUrl(verifyImage)

(***************************************************************************)
(* C23.  As long as no acquisition was started for a form since the code   *)
(* last cleared its image (the mode toggle for the verify form, the reset  *)
(* after a successful enroll for the enroll form), the form has no image   *)
(* and no preview, even when an encoding or a capture started before the   *)
(* clear is still pending.                                                 *)
(***************************************************************************)
C23_ClearNotUndone ==
    /\ latest.verify = Null => (verifyImage = Null /\ verifyPreview = None)
    /\ latest.enroll = Null => (selectedFile = Null /\ previewUrl = None)

=============================================================================
